---- MODULE Spec2Model ----
(***************************************************************************)
(* Book Review Service: the cache-aside read path of GET /books            *)
(* (app/routers/books.py), the write routes (app/crud.py) and the Redis    *)
(* key "all_books" they share.                                             *)
(*                                                                         *)
(* The store is the two tables of app/models.py.  A session reads the      *)
(* books and their reviews in one consistent view.  The cache is the       *)
(* single key: a serialized value with a remaining time-to-live.           *)
(* Concurrent GET /books requests interleave at their suspension points    *)
(* (the cache read, the store query, the cache write).                     *)
(***************************************************************************)
EXTENDS Integers, Sequences, FiniteSets, TLC

\* ---------------------------------------------------------------- bounds
MaxBooks == 1
MaxReviews == 1
TickStep == 150

\* The seconds argument of setex.
TTL == 300

Requests == {"r1", "r2"}
Titles == {"T"}
Authors == {"A"}
Contents == {"C"}

\* ------------------------------------------------------------- JSON text
\* A JSON text is a sequence of tokens; separators and white space are left out.
Tok(k, s, n) == [k |-> k, s |-> s, n |-> n]
TPunct(c) == Tok(c, "", 0)
TStr(s) == Tok("str", s, 0)
TNum(n) == Tok("num", "", n)

\* A parsed JSON value: a number, a string, a list (items) or an object
\* (items are key/value members).
JNum(n) == [k |-> "num", n |-> n, s |-> "", items |-> <<>>]
JStr(s) == [k |-> "str", n |-> 0, s |-> s, items |-> <<>>]
JList(xs) == [k |-> "list", n |-> 0, s |-> "", items |-> xs]
JObj(ms) == [k |-> "obj", n |-> 0, s |-> "", items |-> ms]
JNull == [k |-> "null", n |-> 0, s |-> "", items |-> <<>>]
Member(key, val) == [key |-> key, val |-> val]

RECURSIVE DumpReviews(_, _)
RECURSIVE DumpBooks(_, _)
RECURSIVE EncodeItems(_, _)
RECURSIVE EncodeMembers(_, _)
RECURSIVE Encode(_)

\* model_dump of a ReviewOut: the fields in declaration order, content then id.
DumpReview(r) == <<Member("content", JStr(r.content)), Member("id", JNum(r.id))>>

\* The dumps of the reviews rs[i], rs[i+1], ... of a book, in order.
DumpReviews(rs, i) ==
    IF i > Len(rs) THEN <<>> ELSE <<JObj(DumpReview(rs[i]))>> \o DumpReviews(rs, i + 1)

\* A dump that puts the author under "title" and the title under "author".
DumpBookSwapped(b) ==
    << Member("title", JStr(b.author)), Member("author", JStr(b.title)),
       Member("id", JNum(b.id)),
       Member("reviews", JList(DumpReviews(b.reviews, 1))) >>

\* A dump that leaves the reviews of a book out.
DumpBookNoReviews(b) ==
    << Member("title", JStr(b.title)), Member("author", JStr(b.author)),
       Member("id", JNum(b.id)), Member("reviews", JList(<<>>)) >>

\* model_dump of a BookOut: title, author (BookBase), then id, reviews.
DumpBook(b) ==
    << Member("title", JStr(b.title)), Member("author", JStr(b.author)),
       Member("id", JNum(b.id)),
       Member("reviews", JList(DumpReviews(b.reviews, 1))) >>

\* The dumps of the books bs[i], bs[i+1], ... of a result, in order.
DumpBooks(bs, i) ==
    IF i > Len(bs) THEN <<>> ELSE <<JObj(DumpBook(bs[i]))>> \o DumpBooks(bs, i + 1)

ToJson(result) == JList(DumpBooks(result, 1))

\* json.dumps: the text of a JSON value; of the items items[i], items[i+1], ...
\* of a list; of the members items[i], items[i+1], ... of an object.
EncodeItems(items, i) ==
    IF i > Len(items) THEN <<>>
    ELSE Encode(items[i]) \o EncodeItems(items, i + 1)
EncodeMembers(items, i) ==
    IF i > Len(items) THEN <<>>
    ELSE <<TStr(items[i].key)>> \o Encode(items[i].val) \o EncodeMembers(items, i + 1)
Encode(v) ==
    CASE v.k = "num" -> <<TNum(v.n)>>
      [] v.k = "str" -> <<TStr(v.s)>>
      [] v.k = "list" ->
            <<TPunct("[")>> \o EncodeItems(v.items, 1) \o <<TPunct("]")>>
      [] v.k = "obj" ->
            <<TPunct("{")>> \o EncodeMembers(v.items, 1) \o <<TPunct("}")>>
      [] OTHER -> <<TPunct("null")>>

Dumps(result) == Encode(ToJson(result))

\* json.loads: a recursive-descent parse; ok is FALSE where json.loads raises.
ParseFail == [ok |-> FALSE, val |-> JNull, next |-> 0]
RECURSIVE ParseValue(_, _)
RECURSIVE ParseItems(_, _, _)
RECURSIVE ParseMembers(_, _, _)
ParseValue(t, i) ==
    IF i > Len(t) THEN ParseFail
    ELSE CASE t[i].k = "num" -> [ok |-> TRUE, val |-> JNum(t[i].n), next |-> i + 1]
           [] t[i].k = "str" -> [ok |-> TRUE, val |-> JStr(t[i].s), next |-> i + 1]
           [] t[i].k = "[" -> ParseItems(t, i + 1, <<>>)
           [] t[i].k = "{" -> ParseMembers(t, i + 1, <<>>)
           [] OTHER -> ParseFail
ParseItems(t, i, acc) ==
    IF i > Len(t) THEN ParseFail
    ELSE IF t[i].k = "]" THEN [ok |-> TRUE, val |-> JList(acc), next |-> i + 1]
    ELSE LET r == ParseValue(t, i)
         IN IF r.ok THEN ParseItems(t, r.next, Append(acc, r.val)) ELSE ParseFail
ParseMembers(t, i, acc) ==
    IF i > Len(t) THEN ParseFail
    ELSE IF t[i].k = "}" THEN [ok |-> TRUE, val |-> JObj(acc), next |-> i + 1]
    ELSE IF t[i].k # "str" THEN ParseFail
    ELSE LET r == ParseValue(t, i + 1)
         IN IF r.ok THEN ParseMembers(t, r.next, Append(acc, Member(t[i].s, r.val)))
            ELSE ParseFail

Loads(t) ==
    LET r == ParseValue(t, 1)
    IN IF r.ok /\ r.next = Len(t) + 1 THEN [ok |-> TRUE, val |-> r.val]
       ELSE [ok |-> FALSE, val |-> JNull]

\* A member of an object by key (the last one wins, as in a dict); JNull when absent.
Field(obj, key) ==
    LET idx == {i \in 1..Len(obj.items) : obj.items[i].key = key}
    IN IF idx = {} THEN JNull
       ELSE obj.items[CHOOSE i \in idx : \A j \in idx : j <= i].val

\* response_model = list[BookOut]: the records FastAPI sends for a handler's
\* return value; ok is FALSE where the response validation fails.
ReviewShape(v) ==
    /\ v.k = "obj"
    /\ Field(v, "content").k = "str"
    /\ Field(v, "id").k = "num"
BookShape(v) ==
    /\ v.k = "obj"
    /\ Field(v, "title").k = "str"
    /\ Field(v, "author").k = "str"
    /\ Field(v, "id").k = "num"
    /\ Field(v, "reviews").k \in {"list", "null"}
    /\ \A i \in 1..Len(Field(v, "reviews").items) : ReviewShape(Field(v, "reviews").items[i])
ReviewOut(v) == [id |-> Field(v, "id").n, content |-> Field(v, "content").s]
BookOut(v) ==
    [id |-> Field(v, "id").n, title |-> Field(v, "title").s, author |-> Field(v, "author").s,
     reviews |-> [i \in 1..Len(Field(v, "reviews").items) |->
                     ReviewOut(Field(v, "reviews").items[i])]]
ResponseModel(v) ==
    IF v.k = "list" /\ \A i \in 1..Len(v.items) : BookShape(v.items[i])
    THEN [ok |-> TRUE, val |-> [i \in 1..Len(v.items) |-> BookOut(v.items[i])]]
    ELSE [ok |-> FALSE, val |-> <<>>]

\* ------------------------------------------------------------------ state
VARIABLES
    books,      \* table "books": rows [id, title, author] in id order
    reviews,    \* table "reviews": rows [id, content, book_id] in id order
    cache,      \* the Redis key "all_books"
    req,        \* the GET /books requests in flight
    wres,       \* the response of the last write route
    sessions,   \* the store sessions that are open
    held,       \* history: every collection the store has held
    expired,    \* history: the books created while an entry was live that has since expired
    served      \* history: the requests whose pending response was read from the entry now in the key

vars == <<books, reviews, cache, req, wres, sessions, held, expired, served>>

\* The key is absent.  age and news are history: the seconds since the entry
\* was written, and the books created since.
NoEntry == [present |-> FALSE, value |-> <<>>, ttl |-> 0, age |-> 0, news |-> {}]

\* A request that is not running.
Idle ==
    [pc |-> "idle", db |-> "none", result |-> <<>>, outcome |-> "none", hit |-> FALSE,
     nq |-> 0, readFault |-> FALSE, writeFault |-> FALSE, n0 |-> 0, servedAge |-> 0]

\* --------------------------------------------------------------- the store
\* Book.reviews: the reviews whose book_id is the book's id, as ReviewOut.
ReviewsOf(rs, id) ==
    LET mine == SelectSeq(rs, LAMBDA r : r.book_id = id)
    IN [i \in 1..Len(mine) |-> [id |-> mine[i].id, content |-> mine[i].content]]

\* A query that skips the first row.
get_books_offset(bs) == IF bs = <<>> THEN bs ELSE Tail(bs)

\* crud.get_books: every Book row.
get_books(bs) == bs

\* [BookOut.model_validate(book).model_dump() for book in books]
Validate(bs, rs) ==
    [i \in 1..Len(bs) |->
        [id |-> bs[i].id, title |-> bs[i].title, author |-> bs[i].author,
         reviews |-> ReviewsOf(rs, bs[i].id)]]

\* The collection GET /books reads from the store: the books and each book's
\* reviews, read as one join, from one state of the tables.
Collection(bs, rs) == Validate(get_books(bs), rs)

\* crud.create_book: the row gets the next id.
create_book(bs, title, author) ==
    Append(bs, [id |-> Len(bs) + 1, title |-> title, author |-> author])

\* The foreign key of Review.book_id, as the store enforces it.
ForeignKeyOk(bs, book_id) == \E i \in 1..Len(bs) : bs[i].id = book_id

\* crud.add_review: the row gets the next id.
add_review(rs, book_id, content) ==
    Append(rs, [id |-> Len(rs) + 1, content |-> content, book_id |-> book_id])

Ids(result) == {result[i].id : i \in 1..Len(result)}

\* --------------------------------------------------------------- the cache
\* redis_client.get: the value of the key, or nothing when absent.
CacheGet == IF cache.present THEN cache.value ELSE <<>>

\* A test that takes a value for present when the list it holds has an item.
TruthyList(v) == Len(v) > 2

\* `if cached_books:` -- a value is there and is not empty.
Truthy(v) == Len(v) > 0

\* A write-back that keeps the entry it finds (set-if-absent).
SetexIfAbsent(old, value) ==
    IF old.present THEN old
    ELSE [present |-> TRUE, value |-> value, ttl |-> TTL, age |-> 0, news |-> {}]

\* A write-back with twice the time-to-live.
SetexLong(old, value) ==
    [present |-> TRUE, value |-> value, ttl |-> 2 * TTL, age |-> 0, news |-> {}]

\* redis_client.setex(cache_key, 300, value): the key holds value for TTL seconds,
\* whatever it held before.
Setex(old, value) ==
    [present |-> TRUE, value |-> value, ttl |-> TTL, age |-> 0, news |-> {}]

\* The entry d seconds later: gone once its time-to-live is used up.
Expire(e, d) ==
    IF ~e.present THEN e
    ELSE IF e.ttl - d <= 0 THEN NoEntry
    ELSE [e EXCEPT !.ttl = e.ttl - d, !.age = e.age + d]

\* ------------------------------------------------------------ the session
\* get_db, line 10: database.SessionLocal() opens a session.
Acquired(n) == n + 1

\* A close that runs only when the handler returned (no finally).
ReleasedOnSuccess(n, outcome) == IF outcome = "ok" THEN n - 1 ELSE n

\* get_db, lines 13-14: the finally closes the session however the handler ended.
Released(n, outcome) == n - 1

\* ------------------------------------------------------- GET /books steps
\* A hit that goes on to the store all the same.
OnCacheHitQueries(q, text) == [q EXCEPT !.pc = "query"]

\* A hit that answers with the store's current collection.
OnCacheHitFresh(q, text) ==
    [q EXCEPT !.pc = "responded", !.outcome = "ok", !.hit = TRUE,
              !.result = Collection(books, reviews)]

\* Lines 23-25: a present value is parsed and returned; the store is not read.
\* A value json.loads rejects raises inside the try (next definition); a parsed
\* value that is no list of books fails the response validation.
OnCacheHit(q, text) ==
    LET parsed == Loads(text)
        sent == ResponseModel(parsed.val)
    IN IF sent.ok
       THEN [q EXCEPT !.pc = "responded", !.outcome = "ok", !.hit = TRUE, !.result = sent.val]
       ELSE [q EXCEPT !.pc = "responded", !.outcome = "server_error", !.hit = TRUE]

\* A cache read whose failure leaves the request waiting for the value.
OnCacheReadErrorBlocks(q) == [q EXCEPT !.pc = "get", !.readFault = TRUE]

\* A cache read whose exception is not caught.
OnCacheReadErrorRaises(q) ==
    [q EXCEPT !.pc = "responded", !.outcome = "cache_error", !.readFault = TRUE]

\* Lines 26-27: any exception of the cache read is printed, and the request goes on.
OnCacheReadError(q) == [q EXCEPT !.pc = "query", !.readFault = TRUE]

\* Line 29: no value, the request goes on to the store.
OnCacheMiss(q) == [q EXCEPT !.pc = "query"]

\* Lines 30-31: the store query and the result.
OnQuery(q, bs, rs) ==
    [q EXCEPT !.pc = "setex", !.result = Collection(bs, rs), !.nq = q.nq + 1]

\* A store failure that is caught and answered with the empty list, which is
\* then written back.
OnStoreErrorCachesEmpty(q) ==
    [q EXCEPT !.pc = "setex", !.result = <<>>, !.nq = q.nq + 1]

\* A store failure in lines 30-31 is not caught: it ends the request.
OnStoreError(q) ==
    [q EXCEPT !.pc = "responded", !.outcome = "store_error", !.nq = q.nq + 1]

\* A write-back whose exception is not caught.
OnCacheWriteErrorRaises(q) ==
    [q EXCEPT !.pc = "responded", !.outcome = "cache_error", !.writeFault = TRUE]

\* Lines 37-38: any exception of the write-back is printed; line 40 returns.
OnCacheWriteError(q) ==
    [q EXCEPT !.pc = "responded", !.outcome = "ok", !.writeFault = TRUE]

\* Lines 36, 40: the write-back went through; the result is returned.
OnCacheWritten(q) == [q EXCEPT !.pc = "responded", !.outcome = "ok"]

\* ----------------------------------------------------------------- actions
Init ==
    /\ books = <<>>
    /\ reviews = <<>>
    /\ cache = NoEntry
    /\ req = [r \in Requests |-> Idle]
    /\ wres = "none"
    /\ sessions = 0
    /\ held = {Collection(<<>>, <<>>)}
    /\ expired = {}
    /\ served = {}

\* A GET /books arrives: get_db opens the session (lines 9-12).  n0 and
\* servedAge are history: the number of books in the store when the request
\* started, and the age of the entry its cache read found.
Started ==
    [Idle EXCEPT !.pc = "get", !.db = "open", !.n0 = Len(books)]

\* A cache read whose hit renews the entry's time-to-live (sliding expiry).
ReadCacheSliding(r, fault) ==
    /\ req[r].pc = "idle"
    /\ req' = [req EXCEPT ![r] =
                 IF fault THEN OnCacheReadError(Started)
                 ELSE IF Truthy(CacheGet)
                      THEN IF Loads(CacheGet).ok
                           THEN [OnCacheHit(Started, CacheGet) EXCEPT !.servedAge = cache.age]
                           ELSE OnCacheReadError(Started)
                      ELSE OnCacheMiss(Started)]
    /\ cache' = IF req'[r].hit THEN [cache EXCEPT !.ttl = TTL, !.age = 0] ELSE cache
    /\ sessions' = Acquired(sessions)
    /\ served' = IF req'[r].hit THEN served \cup {r} ELSE served
    /\ UNCHANGED <<books, reviews, wres, held, expired>>

\* A GET /books arrives and reads the cache (lines 9-12, 18-27); fault is a
\* Redis error (unreachable, time-out).
ReadCache(r, fault) ==
    /\ req[r].pc = "idle"
    /\ req' = [req EXCEPT ![r] =
                 IF fault THEN OnCacheReadError(Started)
                 ELSE IF Truthy(CacheGet)
                      THEN IF Loads(CacheGet).ok
                           THEN [OnCacheHit(Started, CacheGet) EXCEPT !.servedAge = cache.age]
                           ELSE OnCacheReadError(Started)
                      ELSE OnCacheMiss(Started)]
    /\ sessions' = Acquired(sessions)
    /\ served' = IF req'[r].hit THEN served \cup {r} ELSE served
    /\ UNCHANGED <<books, reviews, cache, wres, held, expired>>

\* Lines 29-31: the store query; fault is a store failure.
QueryStore(r, fault) ==
    /\ req[r].pc = "query"
    /\ req' = [req EXCEPT ![r] =
                 IF fault THEN OnStoreError(req[r]) ELSE OnQuery(req[r], books, reviews)]
    /\ UNCHANGED <<books, reviews, cache, wres, sessions, held, expired, served>>

\* Lines 34-40: the write-back and the return; fault is a Redis error.
WriteBack(r, fault) ==
    /\ req[r].pc = "setex"
    /\ IF fault
       THEN /\ req' = [req EXCEPT ![r] = OnCacheWriteError(req[r])]
            /\ cache' = cache
       ELSE /\ req' = [req EXCEPT ![r] = OnCacheWritten(req[r])]
            /\ cache' = Setex(cache, Dumps(req[r].result))
    /\ served' = IF fault THEN served ELSE {}
    /\ UNCHANGED <<books, reviews, wres, sessions, held, expired>>

\* The response is sent; get_db closes the session (lines 13-14).
Finish(r) ==
    /\ req[r].pc = "responded"
    /\ req' = [req EXCEPT ![r] = Idle]
    /\ sessions' = Released(sessions, req[r].outcome)
    /\ served' = served \ {r}
    /\ UNCHANGED <<books, reviews, cache, wres, held, expired>>

\* A create that also deletes the cache key.
AddBookInvalidating(title, author, fault) ==
    /\ Len(books) < MaxBooks
    /\ IF fault
       THEN /\ wres' = "error"
            /\ UNCHANGED <<books, held, cache>>
       ELSE /\ books' = create_book(books, title, author)
            /\ wres' = "ok"
            /\ held' = held \cup {Collection(books', reviews)}
            /\ cache' = NoEntry
    /\ sessions' = Released(Acquired(sessions), IF fault THEN "store_error" ELSE "ok")
    /\ served' = IF fault THEN served ELSE {}
    /\ UNCHANGED <<reviews, req, expired>>

\* A create that also rewrites the cached snapshot (write-through).
AddBookWriteThrough(title, author, fault) ==
    /\ Len(books) < MaxBooks
    /\ IF fault
       THEN /\ wres' = "error"
            /\ UNCHANGED <<books, held, cache>>
       ELSE /\ books' = create_book(books, title, author)
            /\ wres' = "ok"
            /\ held' = held \cup {Collection(books', reviews)}
            /\ cache' = IF cache.present
                        THEN [cache EXCEPT !.news = @ \cup {Len(books) + 1},
                                           !.value = Dumps(Collection(books', reviews))]
                        ELSE cache
    /\ sessions' = Released(Acquired(sessions), IF fault THEN "store_error" ELSE "ok")
    /\ UNCHANGED <<reviews, req, expired, served>>

\* POST /books (lines 43-45): fault is a store failure.
AddBook(title, author, fault) ==
    /\ Len(books) < MaxBooks
    /\ IF fault
       THEN /\ wres' = "error"
            /\ UNCHANGED <<books, held, cache>>
       ELSE /\ books' = create_book(books, title, author)
            /\ wres' = "ok"
            /\ held' = held \cup {Collection(books', reviews)}
            /\ cache' = IF cache.present
                        THEN [cache EXCEPT !.news = @ \cup {Len(books) + 1}]
                        ELSE cache
    /\ sessions' = Released(Acquired(sessions), IF fault THEN "store_error" ELSE "ok")
    /\ UNCHANGED <<reviews, req, expired, served>>

\* An add that inserts the row whatever its book_id.
AddReviewUnchecked(book_id, content, fault) ==
    /\ Len(reviews) < MaxReviews
    /\ IF fault
       THEN /\ wres' = "error"
            /\ UNCHANGED <<reviews, held>>
       ELSE /\ reviews' = add_review(reviews, book_id, content)
            /\ wres' = "ok"
            /\ held' = held \cup {Collection(books, reviews')}
    /\ sessions' = Released(Acquired(sessions), IF fault THEN "store_error" ELSE "ok")
    /\ UNCHANGED <<books, cache, req, expired, served>>

\* POST /books/{book_id}/reviews (lines 51-53): fault is a store failure; the
\* store refuses a book_id that is no book's id (a constraint violation).
AddReview(book_id, content, fault) ==
    /\ Len(reviews) < MaxReviews
    /\ IF fault
       THEN /\ wres' = "error"
            /\ UNCHANGED <<reviews, held>>
       ELSE IF ~ForeignKeyOk(books, book_id)
       THEN /\ wres' = "constraint_error"
            /\ UNCHANGED <<reviews, held>>
       ELSE /\ reviews' = add_review(reviews, book_id, content)
            /\ wres' = "ok"
            /\ held' = held \cup {Collection(books, reviews')}
    /\ sessions' = Released(Acquired(sessions),
                            IF fault \/ ~ForeignKeyOk(books, book_id) THEN "store_error" ELSE "ok")
    /\ UNCHANGED <<books, cache, req, expired, served>>

\* Time passes: the entry's time-to-live runs down.
Tick ==
    /\ cache' = Expire(cache, TickStep)
    /\ expired' = IF cache.present /\ ~cache'.present THEN expired \cup cache.news
                  ELSE expired
    /\ served' = IF cache'.present THEN served ELSE {}
    /\ UNCHANGED <<books, reviews, req, wres, sessions, held>>

\* flushall, as the test does before its requests.
Flush ==
    /\ cache.present
    /\ cache' = NoEntry
    /\ served' = {}
    /\ UNCHANGED <<books, reviews, req, wres, sessions, held, expired>>

Next ==
    \/ \E r \in Requests, fault \in BOOLEAN : ReadCache(r, fault)
    \/ \E r \in Requests, fault \in BOOLEAN : QueryStore(r, fault)
    \/ \E r \in Requests, fault \in BOOLEAN : WriteBack(r, fault)
    \/ \E r \in Requests : Finish(r)
    \/ \E t \in Titles, a \in Authors, fault \in BOOLEAN : AddBook(t, a, fault)
    \/ \E b \in 1..(MaxBooks + 1), c \in Contents, fault \in BOOLEAN : AddReview(b, c, fault)
    \/ Tick
    \/ Flush

Spec == Init /\ [][Next]_vars

\* ------------------------------------------------------------------ claims
Responded(r) == req[r].pc = "responded"

\* The books a cached text holds, as a hit would send them.
Decoded(text) == ResponseModel(Loads(text).val).val

\* A result that is the store's collection as read after the request started:
\* every book created before the start and no book the store does not hold, each
\* as the store holds it, with the reviews it had when it was read (the tables
\* only grow, so these are the first of the reviews it has now).
FromStore(q) ==
    /\ Len(q.result) >= q.n0
    /\ Len(q.result) <= Len(books)
    /\ \A i \in 1..Len(q.result) :
          LET now == ReviewsOf(reviews, books[i].id)
          IN /\ q.result[i].id = books[i].id
             /\ q.result[i].title = books[i].title
             /\ q.result[i].author = books[i].author
             /\ Len(q.result[i].reviews) <= Len(now)
             /\ q.result[i].reviews = SubSeq(now, 1, Len(q.result[i].reviews))

\* C1: whatever cache faults a GET /books request meets (the read fails, the
\* write-back fails, both), it ends with success or with a store failure, never
\* with a cache error; a request that met a fault and succeeded returns the
\* collection it read from the store, and a store failure is the failure of its
\* one store query.
C1_CacheFaultsNeverSurface ==
    \A r \in Requests :
        Responded(r) =>
            /\ req[r].outcome \in {"ok", "store_error"}
            /\ (req[r].outcome = "ok" /\ (req[r].readFault \/ req[r].writeFault))
                   => (~req[r].hit /\ req[r].nq = 1 /\ FromStore(req[r]))
            /\ req[r].outcome = "store_error" => (~req[r].hit /\ req[r].nq = 1)

\* A request whose cache read and write-back both failed returned the store's book.
C1_Witness ==
    \E r \in Requests :
        /\ Responded(r) /\ req[r].readFault /\ req[r].writeFault
        /\ req[r].outcome = "ok" /\ Len(req[r].result) >= 1

\* C2: a GET /books that reads the key while it holds an unexpired snapshot
\* responds at once with exactly that snapshot (serializing the response gives
\* the cached text back) and has run no store query.
C2_HitStep ==
    \A r \in Requests :
        (req[r].pc = "idle" /\ req'[r].pc # "idle" /\ cache.present /\ ~req'[r].readFault)
            => /\ req'[r].pc = "responded"
               /\ req'[r].outcome = "ok"
               /\ req'[r].hit
               /\ Dumps(req'[r].result) = cache.value
               /\ req'[r].nq = 0
C2_HitReturnsSnapshot == [][C2_HitStep]_vars

\* A hit returned a snapshot with a book that differs from the store's collection.
C2_Witness ==
    \E r \in Requests :
        /\ Responded(r) /\ req[r].hit /\ Len(req[r].result) >= 1
        /\ req[r].result # Collection(books, reviews)

\* C3: a GET /books that finds the key absent with the cache reachable, and whose
\* store query answers, returns the collection it read from the store (with every
\* book created before the request started); its write-back leaves the key
\* present with a remaining time-to-live of at most 300 seconds and a snapshot
\* equal to the returned collection.
C3_MissStep ==
    \A r \in Requests :
        /\ (req[r].pc = "idle" /\ req'[r].pc # "idle" /\ ~cache.present /\ ~req'[r].readFault)
              => req'[r].pc = "query"
        /\ (req[r].pc = "setex" /\ Responded(r)' /\ ~req'[r].writeFault)
              => /\ req'[r].outcome = "ok"
                 /\ req'[r].result = req[r].result
                 /\ FromStore(req[r])
                 /\ cache'.present
                 /\ cache'.ttl > 0 /\ cache'.ttl <= 300
                 /\ Loads(cache'.value).ok
                 /\ Decoded(cache'.value) = req'[r].result
C3_MissPopulatesCache == [][C3_MissStep]_vars

\* A miss without faults returned the store's book and the key holds it.
C3_Witness ==
    \E r \in Requests :
        /\ Responded(r) /\ ~req[r].hit /\ ~req[r].readFault /\ ~req[r].writeFault
        /\ req[r].outcome = "ok" /\ Len(req[r].result) >= 1
        /\ cache.present /\ cache.ttl = TTL /\ Decoded(cache.value) = req[r].result

\* C4: once the entry that was live when a book was created has expired, every
\* GET /books response decided from then on (a hit at the cache read, or the
\* store query of a miss) includes that book.
C4_AfterExpiryStep ==
    \A r \in Requests :
        /\ (req[r].pc = "idle" /\ Responded(r)' /\ req'[r].outcome = "ok")
              => expired \subseteq Ids(req'[r].result)
        /\ (req[r].pc = "query" /\ req'[r].pc = "setex")
              => expired \subseteq Ids(req'[r].result)
C4_IncludedAfterExpiry == [][C4_AfterExpiryStep]_vars

\* C5 as stated: a GET /books that started with a book in the store, and met no
\* store failure, succeeds with at least one book.
C5_AlwaysABook ==
    \A r \in Requests :
        (Responded(r) /\ req[r].n0 >= 1 /\ req[r].outcome # "store_error")
            => (req[r].outcome = "ok" /\ Len(req[r].result) >= 1)

\* C5, amended: a GET /books that started with a book in the store and was not
\* served from the cache (a miss or a cache fault, the store query answering)
\* succeeds with at least one book, the store's first book among them.
C5_ABookFromStore ==
    \A r \in Requests :
        (Responded(r) /\ req[r].n0 >= 1 /\ ~req[r].hit /\ req[r].outcome # "store_error")
            => /\ req[r].outcome = "ok"
               /\ Len(req[r].result) >= 1
               /\ req[r].result[1].id = books[1].id

\* A request that missed with a book in the store returned a book.
C5_Witness ==
    \E r \in Requests :
        /\ Responded(r) /\ req[r].n0 >= 1 /\ ~req[r].hit /\ ~req[r].readFault
        /\ req[r].outcome = "ok" /\ Len(req[r].result) >= 1

\* C6: a step that changes the store (a book or a review created) leaves the
\* key's presence, value and remaining time-to-live as they were; and a hit
\* returns none of the books created since its entry was written.
C6_WriteStep ==
    /\ (books' # books \/ reviews' # reviews)
          => /\ cache'.present = cache.present
             /\ cache'.value = cache.value
             /\ cache'.ttl = cache.ttl
    /\ \A r \in Requests :
          (req[r].pc = "idle" /\ req'[r].hit)
              => /\ cache.present
                 /\ Ids(req'[r].result) \cap cache.news = {}
C6_WritesLeaveCache == [][C6_WriteStep]_vars

\* A hit returned fewer books than the store held when the request started.
C6_Witness ==
    \E r \in Requests :
        /\ Responded(r) /\ req[r].hit /\ req[r].outcome = "ok"
        /\ Len(req[r].result) < req[r].n0

\* C7 as stated: while an entry is live, no request returns a book created
\* since the entry was written.
C7_NotReflectedAnywhere ==
    \A r \in Requests :
        (req[r].pc \in {"setex", "responded"} /\ cache.present)
            => Ids(req[r].result) \cap cache.news = {}

\* C7, amended: while an entry is live, no response served from the cache
\* contains a book created since the entry was written; and a book a request
\* returns while the live entry predates it was read from the store.
C7_NotReflectedInHits ==
    \A r \in Requests :
        (req[r].pc \in {"setex", "responded"} /\ cache.present)
            => /\ req[r].hit => Ids(req[r].result) \cap cache.news = {}
               /\ Ids(req[r].result) \cap cache.news # {} => (~req[r].hit /\ req[r].nq = 1)

\* A hit was served without the book created while its entry is live.
C7_Witness ==
    \E r \in Requests :
        /\ Responded(r) /\ req[r].hit /\ cache.present
        /\ cache.news # {} /\ Ids(req[r].result) \cap cache.news = {}
        /\ \E b \in cache.news : b <= req[r].n0

\* C8: a response served from the cache was written at most 300 seconds before;
\* an entry is never older than that, and a cache read that finds the key absent
\* goes on as a miss.
C8_Inv ==
    /\ cache.present => (cache.age <= 300 /\ cache.age + cache.ttl = 300)
    /\ \A r \in Requests : req[r].hit => req[r].servedAge <= 300
C8_Step ==
    \A r \in Requests :
        (req[r].pc = "idle" /\ req'[r].pc # "idle" /\ ~cache.present) => req'[r].pc = "query"
C8_StalenessBound == []C8_Inv /\ [][C8_Step]_vars

\* A hit was served from an entry written some time before.
C8_Witness ==
    \E r \in Requests : Responded(r) /\ req[r].hit /\ req[r].servedAge >= TickStep

C10_Inv ==
    \A r \in Requests :
        /\ req[r].nq <= 1
        /\ Responded(r) => req[r].nq = (IF req[r].hit THEN 0 ELSE 1)
        /\ req[r].pc = "setex" => req[r].nq = 1
C10_Step ==
    \A r \in Requests :
        (req[r].pc = "setex" /\ Responded(r)' /\ ~req'[r].writeFault)
            => /\ cache'.present
               /\ cache'.value = Dumps(req[r].result)
               /\ cache'.ttl = TTL
               /\ \A o \in Requests \ {r} : req'[o] = req[o]
C10_OneQueryLastWriterWins == []C10_Inv /\ [][C10_Step]_vars

\* Two requests missed, read different collections and both wrote back; the key
\* holds one of the two snapshots.
C10_Witness ==
    \E r, o \in Requests :
        /\ r # o /\ Responded(r) /\ Responded(o)
        /\ ~req[r].hit /\ ~req[o].hit /\ ~req[r].writeFault /\ ~req[o].writeFault
        /\ req[r].outcome = "ok" /\ req[o].outcome = "ok"
        /\ req[r].result # req[o].result
        /\ cache.present /\ cache.value = Dumps(req[o].result)

\* C11: a write-back never replaces a cached snapshot by an older one: every
\* book of the snapshot it replaces is in the snapshot it writes.
C11_WriteBackStep ==
    \A r \in Requests :
        (req[r].pc = "setex" /\ Responded(r)' /\ ~req'[r].writeFault /\ cache.present)
            => Ids(Decoded(cache.value)) \subseteq Ids(Decoded(cache'.value))
C11_NeverReplacedByOlder == [][C11_WriteBackStep]_vars

\* C12: the responses read from one entry, which no write-back changed between
\* them, are identical, and are the entry's records whatever the store holds.
C12_SameEntrySameResult ==
    \A r \in served :
        /\ Responded(r) /\ req[r].hit /\ req[r].outcome = "ok"
        /\ cache.present /\ cache.value = Dumps(req[r].result)
        /\ \A o \in served : req[o].result = req[r].result

\* Two requests were answered from the same entry, one started before a book
\* was created and one after; the store holds the book, the responses do not.
C12_Witness ==
    \E r, o \in served :
        /\ req[r].n0 < req[o].n0
        /\ Len(books) > Len(req[o].result)
        /\ req[r].servedAge < req[o].servedAge

\* C13: every Review row references an existing Book row; an add the store
\* refused for its book_id left the store as it was, and a row is added only
\* by an add that succeeded for the id of an existing book.
C13_Inv ==
    \A i \in 1..Len(reviews) : \E j \in 1..Len(books) : books[j].id = reviews[i].book_id
C13_Step ==
    /\ wres' = "constraint_error" => (books' = books /\ reviews' = reviews)
    /\ reviews' # reviews
          => /\ wres' = "ok"
             /\ Len(reviews') = Len(reviews) + 1
             /\ SubSeq(reviews', 1, Len(reviews)) = reviews
             /\ reviews'[Len(reviews')].book_id \in {books[j].id : j \in 1..Len(books)}
C13_ReviewsReferenceBooks == []C13_Inv /\ [][C13_Step]_vars

\* The store holds a book, and the last write request was an add for the id
\* of no book, which the store refused.
C13_Witness ==
    /\ wres = "constraint_error"
    /\ Len(books) >= 1
    /\ reviews = <<>>

\* C14: the open store sessions are exactly those of the requests in progress:
\* a request holds its session from its start until it has responded, whatever
\* the response, and an ended request (a GET on any path, a write request that
\* succeeded or failed) has released its session.
C14_SessionsReleased ==
    /\ sessions = Cardinality({r \in Requests : req[r].pc # "idle"})
    /\ \A r \in Requests : req[r].db = (IF req[r].pc = "idle" THEN "none" ELSE "open")

\* No request is in progress and no session is open, after a GET that wrote
\* the entry back has ended and a write request has failed in the store.
C14_Witness ==
    /\ \A r \in Requests : req[r].pc = "idle"
    /\ sessions = 0
    /\ cache.present
    /\ wres = "error"

\* ------------------------------------------- the serialization round trip
\* The write-back and the hit applied to every store of up to RtMaxBooks books
\* and RtMaxReviews reviews, with no store write, cache fault or expiry.
RtMaxBooks == 2
RtMaxReviews == 2
RtTitles == {"T", "U"}
RtAuthors == {"A"}
RtContents == {"C", "D"}

\* The Book tables of n rows: create_book numbers the rows 1..n.
BookTables(n) ==
    { [i \in 1..n |-> [id |-> i, title |-> t[i], author |-> a[i]]] :
          t \in [1..n -> RtTitles], a \in [1..n -> RtAuthors] }

\* The Review tables of m rows over nb books: add_review numbers the rows 1..m.
ReviewTables(m, nb) ==
    { [i \in 1..m |-> [id |-> i, content |-> c[i], book_id |-> b[i]]] :
          c \in [1..m -> RtContents], b \in [1..m -> 1..nb] }

InitRoundTrip ==
    /\ books \in UNION {BookTables(n) : n \in 0..RtMaxBooks}
    /\ reviews \in UNION {ReviewTables(m, Len(books)) : m \in 0..RtMaxReviews}
    /\ cache = NoEntry
    /\ req = [r \in Requests |-> Idle]
    /\ wres = "none"
    /\ sessions = 0
    /\ held = {Collection(books, reviews)}
    /\ expired = {}
    /\ served = {}

NextRoundTrip ==
    \/ \E r \in Requests : ReadCache(r, FALSE)
    \/ \E r \in Requests : QueryStore(r, FALSE)
    \/ \E r \in Requests : WriteBack(r, FALSE)
    \/ \E r \in Requests : Finish(r)

SpecRoundTrip == InitRoundTrip /\ [][NextRoundTrip]_vars

\* C15: the cache value deserializes, and deserializes to records equal field
\* by field (id, title, author, each review's id and content) to the records
\* that were serialized; a hit returns the records the populating miss returned.
C15_RoundTrip ==
    /\ cache.present
          => /\ Loads(cache.value).ok
             /\ ResponseModel(Loads(cache.value).val).ok
             /\ Decoded(cache.value) = Collection(books, reviews)
    /\ \A r \in Requests :
          Responded(r) => /\ req[r].outcome = "ok"
                          /\ req[r].result = Collection(books, reviews)
    /\ \A r, o \in Requests :
          (Responded(r) /\ Responded(o) /\ req[r].hit /\ ~req[o].hit)
              => \A i \in 1..Len(req[o].result) :
                    /\ req[r].result[i].id = req[o].result[i].id
                    /\ req[r].result[i].title = req[o].result[i].title
                    /\ req[r].result[i].author = req[o].result[i].author
                    /\ Len(req[r].result[i].reviews) = Len(req[o].result[i].reviews)
                    /\ \A k \in 1..Len(req[o].result[i].reviews) :
                          /\ req[r].result[i].reviews[k].id = req[o].result[i].reviews[k].id
                          /\ req[r].result[i].reviews[k].content
                                = req[o].result[i].reviews[k].content

\* A miss populated the entry and another request hit it, for a store of two
\* books with different titles, the second with two reviews of different content.
C15_Witness ==
    \E r, o \in Requests :
        /\ Responded(r) /\ Responded(o) /\ req[r].hit /\ ~req[o].hit
        /\ Len(req[r].result) = 2
        /\ req[r].result[1].title # req[r].result[2].title
        /\ req[r].result[1].reviews = <<>>
        /\ Len(req[r].result[2].reviews) = 2
        /\ req[r].result[2].reviews[1].content # req[r].result[2].reviews[2].content

\* ------------------------------------------------------------- progress
\* The event loop resumes a request once the call it awaits has returned or
\* raised, and the store answers or fails every query: a request that can take
\* its next step (the store query, then the write-back) takes it.
Resume(r) == \E fault \in BOOLEAN : QueryStore(r, fault) \/ WriteBack(r, fault)

Fairness == \A r \in Requests : WF_vars(Resume(r))

\* The requests with their cache and store faults, the creation of books, the
\* passage of time and the flush of the cache.
NextProgress ==
    \/ \E r \in Requests, fault \in BOOLEAN : ReadCache(r, fault)
    \/ \E r \in Requests, fault \in BOOLEAN : QueryStore(r, fault)
    \/ \E r \in Requests, fault \in BOOLEAN : WriteBack(r, fault)
    \/ \E r \in Requests : Finish(r)
    \/ \E t \in Titles, a \in Authors, fault \in BOOLEAN : AddBook(t, a, fault)
    \/ Tick
    \/ Flush

FairSpec == Init /\ [][NextProgress]_vars /\ Fairness

\* C16: every GET /books that has started eventually responds (with the
\* collection or with the store's failure), also when its cache read or its
\* write-back failed.
C16_EveryGetCompletes ==
    \A r \in Requests : (req[r].pc # "idle") ~> Responded(r)

\* A request whose cache read failed went on to the store and responded with
\* the store's failure.
C16_Witness ==
    \E r \in Requests :
        /\ Responded(r) /\ req[r].readFault
        /\ req[r].outcome = "store_error" /\ req[r].nq = 1

\* C17: a request leaves its store query either with the store's answer, on
\* its way to the write-back, or failed: then it has responded with the store's
\* failure and no result, its only further step is the release of its session,
\* and none of its steps (cache read, failed query, release) touched the entry.
C17_Inv ==
    \A r \in Requests :
        /\ req[r].pc = "setex" => req[r].outcome = "none"
        /\ req[r].outcome = "store_error"
              => Responded(r) /\ ~req[r].hit /\ req[r].result = <<>> /\ req[r].nq = 1
C17_Step ==
    \A r \in Requests :
        /\ (req[r].pc = "idle" /\ req'[r].pc # "idle") => cache' = cache
        /\ (req[r].pc = "query" /\ req'[r].pc = "setex")
              => req'[r].result = Collection(books, reviews)
        /\ (req[r].pc = "query" /\ req'[r].pc # "query" /\ req'[r].pc # "setex")
              => /\ Responded(r)' /\ req'[r].outcome = "store_error"
                 /\ cache' = cache
        /\ (req[r].outcome = "store_error" /\ req'[r] # req[r])
              => req'[r] = Idle /\ cache' = cache
C17_StoreFailureNoWriteBack == []C17_Inv /\ [][C17_Step]_vars

\* A request met the store's failure while the key held an entry (its cache
\* read had failed); the store holds a book.
C17_Witness ==
    \E r \in Requests :
        /\ Responded(r) /\ req[r].outcome = "store_error"
        /\ cache.present /\ cache.age > 0
        /\ Len(books) >= 1

\* C18: the snapshot of the empty collection is a present value: a miss that
\* found the store empty writes it back as an entry, and a cache read that
\* finds it, without a cache fault, is a hit that returns the empty list and
\* does not query the store, whatever the store holds by then.
C18_Step ==
    \A r \in Requests :
        /\ (req[r].pc = "setex" /\ Responded(r)' /\ ~req'[r].writeFault /\ req[r].result = <<>>)
              => /\ cache'.present /\ cache'.value = Dumps(<<>>) /\ cache'.ttl = TTL
                 /\ Truthy(cache'.value)
        /\ (req[r].pc = "idle" /\ req'[r].pc # "idle" /\ ~req'[r].readFault
                /\ cache.present /\ cache.value = Dumps(<<>>))
              => /\ Responded(r)' /\ req'[r].hit /\ req'[r].outcome = "ok"
                 /\ req'[r].result = <<>> /\ req'[r].nq = 0
C18_EmptySnapshotIsPresent == [][C18_Step]_vars

\* A request that started when the store held a book was answered the empty
\* list from the entry a miss on the empty store had written.
C18_Witness ==
    \E r \in served :
        /\ req[r].n0 >= 1 /\ req[r].result = <<>> /\ req[r].nq = 0
        /\ cache.value = Dumps(<<>>)

\* C19: a hit leaves the store and the entry (its value and its remaining
\* time-to-live) as they were; the key gets a value or a longer time-to-live
\* only by the write-back of a request that missed and queried the store, and
\* the time-to-live is then TTL.
C19_Step ==
    /\ \A r \in Requests :
          (req[r].pc = "idle" /\ Responded(r)' /\ req'[r].hit)
              => cache' = cache /\ books' = books /\ reviews' = reviews
    /\ (cache'.present
          /\ (~cache.present \/ cache'.ttl > cache.ttl \/ cache'.value # cache.value))
          => /\ cache'.ttl = TTL /\ cache'.age = 0
             /\ \E r \in Requests :
                   /\ req[r].pc = "setex" /\ req[r].nq = 1 /\ ~req[r].hit
                   /\ Responded(r)' /\ ~req'[r].writeFault
C19_HitChangesNothing == [][C19_Step]_vars

\* Right after a hit on an entry written TickStep seconds or more before: the
\* entry has the time left that it had before the hit.
C19_Witness ==
    \E r \in served :
        /\ Responded(r) /\ req[r].hit
        /\ req[r].servedAge >= TickStep
        /\ cache.age = req[r].servedAge
        /\ cache.ttl = TTL - req[r].servedAge

\* ------------------------------------------- a key written by another client
\* The texts another client of the cache may leave under the key: no text, a
\* text cut short ("["), a stray bracket ("]"), and a JSON text that is no list
\* of books ("7").
Truncated == <<TPunct("[")>>
Stray == <<TPunct("]")>>
NotAList == <<TNum(7)>>
ForeignValues == {<<>>, Truncated, Stray, NotAList}

\* Another client sets the key, with the time-to-live of an entry.
Prepopulate(v) ==
    /\ cache' = [present |-> TRUE, value |-> v, ttl |-> TTL, age |-> 0, news |-> {}]
    /\ served' = {}
    /\ UNCHANGED <<books, reviews, req, wres, sessions, held, expired>>

\* The requests on a cache that answers every read (so that a failed cache
\* read is a value json.loads rejected), with store faults, write-back faults,
\* the creation of books, the passage of time, and the key set by another client.
NextForeign ==
    \/ \E r \in Requests : ReadCache(r, FALSE)
    \/ \E r \in Requests, fault \in BOOLEAN : QueryStore(r, fault)
    \/ \E r \in Requests, fault \in BOOLEAN : WriteBack(r, fault)
    \/ \E r \in Requests : Finish(r)
    \/ \E t \in Titles, a \in Authors, fault \in BOOLEAN : AddBook(t, a, fault)
    \/ Tick
    \/ \E v \in ForeignValues : Prepopulate(v)

SpecForeign == Init /\ [][NextForeign]_vars

\* C20: a request that finds under the key a text json.loads rejects goes on to
\* the store, as on a miss, and returns the store's collection; its write-back,
\* when the cache takes it, replaces the text by the snapshot of that
\* collection with a time-to-live of TTL, which the next cache read hits.
C20_Step ==
    \A r \in Requests :
        /\ (req[r].pc = "idle" /\ req'[r].pc # "idle"
                /\ cache.present /\ ~Loads(cache.value).ok)
              => req'[r].pc = "query" /\ req'[r].outcome = "none" /\ cache' = cache
        /\ (req[r].pc = "query" /\ req'[r].pc = "setex")
              => req'[r].result = Collection(books, reviews)
        /\ (req[r].pc = "setex" /\ req'[r].pc # "setex")
              => /\ Responded(r)' /\ req'[r].outcome = "ok"
                 /\ req'[r].result = req[r].result
                 /\ IF req'[r].writeFault THEN cache' = cache
                    ELSE /\ cache'.present /\ cache'.ttl = TTL /\ cache'.age = 0
                         /\ Loads(cache'.value).ok
                         /\ Decoded(cache'.value) = req[r].result
        /\ (req[r].pc = "idle" /\ req'[r].pc # "idle"
                /\ cache.present /\ cache.value = Dumps(Decoded(cache.value)))
              => /\ Responded(r)' /\ req'[r].hit /\ req'[r].outcome = "ok"
                 /\ req'[r].result = Decoded(cache.value)
C20_UnreadableValueIsAMiss == [][C20_Step]_vars

\* A request found an unreadable text under the key, read the store's book and
\* replaced the text by its snapshot; another request then hit that snapshot.
C20_Witness ==
    \E r, o \in Requests :
        /\ Responded(r) /\ req[r].readFault /\ ~req[r].writeFault
        /\ req[r].outcome = "ok" /\ Len(req[r].result) >= 1
        /\ cache.present /\ cache.value = Dumps(req[r].result) /\ cache.ttl = TTL
        /\ o \in served /\ req[o].result = req[r].result

====
